---- MODULE Spec2Model ----
(***************************************************************************)
(* The load sequence of worlds/sekiro/Locations.py: the location records   *)
(* are constructed in the order of the location_tables literal, the rank   *)
(* pass and the conditional pass annotate them, and the index loop builds  *)
(* location_dictionary and location_name_groups.  The tables, the region   *)
(* order and the group labels are the literals of the source.  The load is *)
(* also run on small table declarations of the same shape, so that every   *)
(* pass is exercised to its end.                                           *)
(***************************************************************************)
EXTENDS Integers, Sequences, FiniteSets, TLC

VARIABLES
  declared,             \* the location_tables literal being evaluated: <<[key, value]>>, value the constructor calls
  item_dictionary,      \* Items.item_dictionary: item name -> [category, classification]
  pc,                   \* the statement of the module being executed
  err,                  \* "" or the exception that stopped the load
  location_id,          \* SekiroLocationData.__location_id
  location_tables,      \* the records constructed so far, per region, in declaration order
  i,                    \* rank pass: regions of region_order already ranked
  c,                    \* conditional pass: regions of the forced list already done
  r,                    \* index loop: regions of location_tables already indexed
  j,                    \* index loop: records of the current region already grouped
  location_dictionary,  \* name -> the record object, as its place <<g, n>> in location_tables
  location_name_groups, \* group label -> set of location names
  probe                 \* a single constructor call and method call, outside the load

vars == <<declared, item_dictionary, pc, err, location_id, location_tables, i, c, r, j,
          location_dictionary, location_name_groups, probe>>

----------------------------------------------------------------------------
(* Optional[...] values: None is the empty tuple, a present value x is <<x>>. *)
None == <<>>
Some(x) == <<x>>

\* Python truthiness of an Optional[int]: None and 0 are falsy.
Truthy(o) == o # None /\ o[1] # 0

\* The boolean fields of SekiroLocationData, in the order of the class.
Flags == {"missable", "npc", "prominent", "progression", "boss", "miniboss", "drop",
          "mimic", "hostile_npc", "lizard", "shop", "conditional", "hidden"}

\* The first location ID.
FirstLocationId == 100000

\* Regions in approximate order of reward.
region_order == <<
    "Cemetery of Ash",
    "Firelink Shrine",
    "High Wall of Lothric",
    "Greirat's Shop",
    "Undead Settlement",
    "Road of Sacrifices",
    "Farron Keep",
    "Cathedral of the Deep",
    "Catacombs of Carthus",
    "Smouldering Lake",
    "Irithyll of the Boreal Valley",
    "Irithyll Dungeon",
    "Karla's Shop",
    "Anor Londo",
    "Profaned Capital",
    "Lothric Castle",
    "Consumed King's Garden",
    "Untended Graves",
    "Firelink Shrine Bell Tower",
    "Grand Archives",
    "Archdragon Peak",
    "Kiln of the First Flame"
  >>

\* The regions whose records the conditional pass forces to conditional.
conditional_regions == <<"Firelink Shrine Bell Tower", "Greirat's Shop", "Karla's Shop">>

\* The fields the dataclass-generated __init__ stores for a call
\* SekiroLocationData(name, default_item_name, ap_code=..., static=..., <kw>=True, ...):
\* kw is the set of boolean keywords passed as True, every other field has its default.
SekiroLocationData(name, default_item_name, ap_code, static, kw) ==
  [name |-> name, default_item_name |-> default_item_name, ap_code |-> ap_code,
   region_value |-> 0, static |-> static,
   missable |-> "missable" \in kw, npc |-> "npc" \in kw, prominent |-> "prominent" \in kw,
   progression |-> "progression" \in kw, boss |-> "boss" \in kw,
   miniboss |-> "miniboss" \in kw, drop |-> "drop" \in kw, mimic |-> "mimic" \in kw,
   hostile_npc |-> "hostile_npc" \in kw, lizard |-> "lizard" \in kw, shop |-> "shop" \in kw,
   conditional |-> "conditional" \in kw, hidden |-> "hidden" \in kw]

\* The two call shapes of the literal tables: without and with static=.
L(name, item, kw) == SekiroLocationData(name, Some(item), None, None, kw)
LS(name, item, static, kw) == SekiroLocationData(name, Some(item), None, Some(static), kw)

\* location_tables["Cemetery of Ash"], in the order of the literal.
TableCemeteryOfAsh == <<
    L("CA: Soul of a Deserted Corpse - right of spawn", "Soul of a Deserted Corpse", {}),
    L("CA: Firebomb - down the cliff edge", "Firebomb x5", {}),
    L("CA: Titanite Shard - jump to coffin", "Titanite Shard", {}),
    L("CA: Soul of an Unknown Traveler - by miniboss", "Soul of an Unknown Traveler", {}),
    L("CA: Speckled Stoneplate Ring+1 - by miniboss", "Speckled Stoneplate Ring+1", {}),
    L("CA: Titanite Scale - miniboss drop", "Titanite Scale", {"miniboss"}),
    L("CA: Coiled Sword - boss drop", "Coiled Sword", {"prominent", "progression", "boss"})
  >>

\* location_tables["Firelink Shrine"], in the order of the literal.
TableFirelinkShrine == <<
    L("FS: Skull Ring - kill Ludleth", "Skull Ring", {"hidden", "drop", "npc"}),
    L("FS: Uchigatana - NPC drop", "Uchigatana", {"hostile_npc"}),
    L("FS: Master's Attire - NPC drop", "Master's Attire", {"hostile_npc"}),
    L("FS: Master's Gloves - NPC drop", "Master's Gloves", {"hostile_npc"}),
    L("FS: Broken Straight Sword - gravestone after boss", "Broken Straight Sword", {}),
    L("FS: Homeward Bone - cliff edge after boss", "Homeward Bone", {}),
    L("FS: Ember - path right of Firelink entrance", "Ember", {}),
    L("FS: Soul of a Deserted Corpse - bell tower door", "Soul of a Deserted Corpse", {}),
    L("FS: East-West Shield - tree by shrine entrance", "East-West Shield", {}),
    L("FS: Homeward Bone - path above shrine entrance", "Homeward Bone", {}),
    L("FS: Ember - above shrine entrance", "Ember", {}),
    L("FS: Wolf Ring+2 - left of boss room exit", "Wolf Ring+2", {}),
    L("FS: Cracked Red Eye Orb - Leonhard", "Cracked Red Eye Orb x5", {"missable", "npc"}),
    L("FS: Lift Chamber Key - Leonhard", "Lift Chamber Key", {"missable", "npc", "drop"}),
    L("FS: White Sign Soapstone - shop", "White Sign Soapstone", {"shop"}),
    L("FS: Dried Finger - shop", "Dried Finger", {"shop"}),
    L("FS: Tower Key - shop", "Tower Key", {"progression", "shop"}),
    LS("FS: Ember - shop", "Ember", "99,0:-1:110000:", {"shop"}),
    LS("FS: Farron Dart - shop", "Farron Dart", "99,0:-1:110000:", {"shop"}),
    LS("FS: Soul Arrow - shop", "Soul Arrow", "99,0:-1:110000:", {"shop"}),
    L("FS: Heal Aid - shop", "Heal Aid", {"shop"}),
    L("FS: Alluring Skull - Mortician's Ashes", "Alluring Skull", {"shop", "conditional"}),
    LS("FS: Ember - Mortician's Ashes", "Ember", "99,0:-1:110000,70000100:", {"shop", "conditional"}),
    L("FS: Grave Key - Mortician's Ashes", "Grave Key", {"shop", "conditional"}),
    L("FS: Life Ring - Dreamchaser's Ashes", "Life Ring", {"shop", "conditional"}),
    L("FS: Hidden Blessing - Dreamchaser's Ashes", "Hidden Blessing", {"missable", "shop"}),
    L("FS: Lloyd's Shield Ring - Paladin's Ashes", "Lloyd's Shield Ring", {"shop", "conditional"}),
    LS("FS: Ember - Grave Warden's Ashes", "Ember", "99,0:-1:110000,70000103:", {"shop", "conditional"}),
    LS("FS: Karla's Pointed Hat - Prisoner Chief's Ashes", "Karla's Pointed Hat", "99,0:-1:110000,70000105:", {"shop", "conditional"}),
    LS("FS: Karla's Coat - Prisoner Chief's Ashes", "Karla's Coat", "99,0:-1:110000,70000105:", {"shop", "conditional"}),
    LS("FS: Karla's Gloves - Prisoner Chief's Ashes", "Karla's Gloves", "99,0:-1:110000,70000105:", {"shop", "conditional"}),
    LS("FS: Karla's Trousers - Prisoner Chief's Ashes", "Karla's Trousers", "99,0:-1:110000,70000105:", {"shop", "conditional"}),
    L("FS: Xanthous Overcoat - Xanthous Ashes", "Xanthous Overcoat", {"shop", "conditional"}),
    L("FS: Xanthous Gloves - Xanthous Ashes", "Xanthous Gloves", {"shop", "conditional"}),
    L("FS: Xanthous Trousers - Xanthous Ashes", "Xanthous Trousers", {"shop", "conditional"}),
    LS("FS: Ember - Dragon Chaser's Ashes", "Ember", "99,0:-1:110000,70000108:", {"shop", "conditional"}),
    L("FS: Washing Pole - Easterner's Ashes", "Washing Pole", {"shop", "conditional"}),
    L("FS: Eastern Helm - Easterner's Ashes", "Eastern Helm", {"shop", "conditional"}),
    L("FS: Eastern Armor - Easterner's Ashes", "Eastern Armor", {"shop", "conditional"}),
    L("FS: Eastern Gauntlets - Easterner's Ashes", "Eastern Gauntlets", {"shop", "conditional"}),
    L("FS: Eastern Leggings - Easterner's Ashes", "Eastern Leggings", {"shop", "conditional"}),
    L("FS: Wood Grain Ring - Easterner's Ashes", "Wood Grain Ring", {"shop", "conditional"}),
    L("FS: Millwood Knight Helm - Captain's Ashes", "Millwood Knight Helm", {"shop", "conditional"}),
    L("FS: Millwood Knight Armor - Captain's Ashes", "Millwood Knight Armor", {"shop", "conditional"}),
    L("FS: Millwood Knight Gauntlets - Captain's Ashes", "Millwood Knight Gauntlets", {"shop", "conditional"}),
    L("FS: Millwood Knight Leggings - Captain's Ashes", "Millwood Knight Leggings", {"shop", "conditional"}),
    L("FS: Refined Gem - Captain's Ashes", "Refined Gem", {"shop", "conditional"}),
    L("FS: Vordt's Great Hammer - Ludleth for Vordt", "Vordt's Great Hammer", {"missable", "boss", "shop"}),
    L("FS: Pontiff's Left Eye - Ludleth for Vordt", "Pontiff's Left Eye", {"missable", "boss", "shop"}),
    L("FS: Bountiful Sunlight - Ludleth for Rosaria", "Bountiful Sunlight", {"missable", "boss", "shop"}),
    L("FS: Darkmoon Longbow - Ludleth for Aldrich", "Darkmoon Longbow", {"missable", "boss", "shop"}),
    L("FS: Lifehunt Scythe - Ludleth for Aldrich", "Lifehunt Scythe", {"missable", "boss", "shop"}),
    L("FS: Hollowslayer Greatsword - Ludleth for Greatwood", "Hollowslayer Greatsword", {"missable", "boss", "shop"}),
    L("FS: Arstor's Spear - Ludleth for Greatwood", "Arstor's Spear", {"missable", "boss", "shop"}),
    L("FS: Crystal Sage's Rapier - Ludleth for Sage", "Crystal Sage's Rapier", {"missable", "boss", "shop"}),
    L("FS: Crystal Hail - Ludleth for Sage", "Crystal Hail", {"missable", "boss", "shop"}),
    L("FS: Cleric's Candlestick - Ludleth for Deacons", "Cleric's Candlestick", {"missable", "boss", "shop"}),
    L("FS: Deep Soul - Ludleth for Deacons", "Deep Soul", {"missable", "boss", "shop"}),
    L("FS: Havel's Ring - Ludleth for Stray Demon", "Havel's Ring", {"missable", "boss", "shop"}),
    L("FS: Boulder Heave - Ludleth for Stray Demon", "Boulder Heave", {"missable", "boss", "shop"}),
    L("FS: Farron Greatsword - Ludleth for Abyss Watchers", "Farron Greatsword", {"missable", "boss", "shop"}),
    L("FS: Wolf Knight's Greatsword - Ludleth for Abyss Watchers", "Wolf Knight's Greatsword", {"missable", "boss", "shop"}),
    L("FS: Wolnir's Holy Sword - Ludleth for Wolnir", "Wolnir's Holy Sword", {"missable", "boss", "shop"}),
    L("FS: Black Serpent - Ludleth for Wolnir", "Black Serpent", {"missable", "boss", "shop"}),
    L("FS: Demon's Greataxe - Ludleth for Fire Demon", "Demon's Greataxe", {"missable", "boss", "shop"}),
    L("FS: Demon's Fist - Ludleth for Fire Demon", "Demon's Fist", {"missable", "boss", "shop"}),
    L("FS: Old King's Great Hammer - Ludleth for Old Demon King", "Old King's Great Hammer", {"missable", "boss", "shop"}),
    L("FS: Chaos Bed Vestiges - Ludleth for Old Demon King", "Chaos Bed Vestiges", {"missable", "boss", "shop"}),
    L("FS: Greatsword of Judgment - Ludleth for Pontiff", "Greatsword of Judgment", {"missable", "boss", "shop"}),
    L("FS: Profaned Greatsword - Ludleth for Pontiff", "Profaned Greatsword", {"missable", "boss", "shop"}),
    L("FS: Yhorm's Great Machete - Ludleth for Yhorm", "Yhorm's Great Machete", {"missable", "boss", "shop"}),
    L("FS: Yhorm's Greatshield - Ludleth for Yhorm", "Yhorm's Greatshield", {"missable", "boss", "shop"}),
    L("FS: Dancer's Enchanted Swords - Ludleth for Dancer", "Dancer's Enchanted Swords", {"missable", "boss", "shop"}),
    L("FS: Soothing Sunlight - Ludleth for Dancer", "Soothing Sunlight", {"missable", "boss", "shop"}),
    L("FS: Dragonslayer Greataxe - Ludleth for Dragonslayer", "Dragonslayer Greataxe", {"missable", "boss", "shop"}),
    L("FS: Dragonslayer Greatshield - Ludleth for Dragonslayer", "Dragonslayer Greatshield", {"missable", "boss", "shop"}),
    L("FS: Moonlight Greatsword - Ludleth for Oceiros", "Moonlight Greatsword", {"missable", "boss", "shop"}),
    L("FS: White Dragon Breath - Ludleth for Oceiros", "White Dragon Breath", {"missable", "boss", "shop"}),
    L("FS: Lorian's Greatsword - Ludleth for Princes", "Lorian's Greatsword", {"missable", "boss", "shop"}),
    L("FS: Lothric's Holy Sword - Ludleth for Princes", "Lothric's Holy Sword", {"missable", "boss", "shop"}),
    L("FS: Gundyr's Halberd - Ludleth for Champion", "Gundyr's Halberd", {"missable", "boss", "shop"}),
    L("FS: Prisoner's Chain - Ludleth for Champion", "Prisoner's Chain", {"missable", "boss", "shop"}),
    L("FS: Storm Curved Sword - Ludleth for Nameless", "Storm Curved Sword", {"missable", "boss", "shop"}),
    L("FS: Dragonslayer Swordspear - Ludleth for Nameless", "Dragonslayer Swordspear", {"missable", "boss", "shop"}),
    L("FS: Lightning Storm - Ludleth for Nameless", "Lightning Storm", {"missable", "boss", "shop"})
  >>

\* location_tables["Firelink Shrine Bell Tower"], in the order of the literal.
TableFirelinkShrineBellTower == <<
    L("FSBT: Homeward Bone - roof", "Homeward Bone x3", {}),
    L("FSBT: Estus Ring - tower base", "Estus Ring", {}),
    L("FSBT: Estus Shard - rafters", "Estus Shard", {}),
    L("FSBT: Fire Keeper Soul - tower top", "Fire Keeper Soul", {}),
    L("FSBT: Fire Keeper Robe - partway down tower", "Fire Keeper Robe", {}),
    L("FSBT: Fire Keeper Gloves - partway down tower", "Fire Keeper Gloves", {}),
    L("FSBT: Fire Keeper Skirt - partway down tower", "Fire Keeper Skirt", {}),
    L("FSBT: Covetous Silver Serpent Ring - illusory wall past rafters", "Covetous Silver Serpent Ring", {"hidden"}),
    L("FSBT: Twinkling Titanite - lizard behind Firelink", "Twinkling Titanite", {"lizard"}),
    L("FSBT: Iron Bracelets - crow for Homeward Bone", "Iron Bracelets", {"missable"}),
    L("FSBT: Ring of Sacrifice - crow for Loretta's Bone", "Ring of Sacrifice", {"missable"}),
    L("FSBT: Porcine Shield - crow for Undead Bone Shard", "Porcine Shield", {"missable"}),
    L("FSBT: Lucatiel's Mask - crow for Vertebra Shackle", "Lucatiel's Mask", {"missable"}),
    L("FSBT: Very good! Carving - crow for Divine Blessing", "Very good! Carving", {"missable"}),
    L("FSBT: Thank you Carving - crow for Hidden Blessing", "Thank you Carving", {"missable"}),
    L("FSBT: I'm sorry Carving - crow for Shriving Stone", "I'm sorry Carving", {"missable"}),
    L("FSBT: Sunlight Shield - crow for Mendicant's Staff", "Sunlight Shield", {"missable"}),
    L("FSBT: Hollow Gem - crow for Eleonora", "Hollow Gem", {"missable"}),
    LS("FSBT: Titanite Scale - crow for Blacksmith Hammer", "Titanite Scale x3", "99,0:50004330::", {"missable"}),
    L("FSBT: Help me! Carving - crow for any sacred chime", "Help me! Carving", {"missable"}),
    L("FSBT: Titanite Slab - crow for Coiled Sword Fragment", "Titanite Slab", {"missable"}),
    L("FSBT: Hello Carving - crow for Alluring Skull", "Hello Carving", {"missable"}),
    L("FSBT: Armor of the Sun - crow for Siegbr??u", "Armor of the Sun", {"missable"}),
    L("FSBT: Large Titanite Shard - crow for Firebomb", "Large Titanite Shard", {"missable"}),
    L("FSBT: Titanite Chunk - crow for Black Firebomb", "Titanite Chunk", {"missable"}),
    L("FSBT: Iron Helm - crow for Lightning Urn", "Iron Helm", {"missable"}),
    L("FSBT: Twinkling Titanite - crow for Prism Stone", "Twinkling Titanite", {"missable"}),
    L("FSBT: Iron Leggings - crow for Seed of a Giant Tree", "Iron Leggings", {"missable"}),
    L("FSBT: Lightning Gem - crow for Xanthous Crown", "Lightning Gem", {"missable"}),
    L("FSBT: Twinkling Titanite - crow for Large Leather Shield", "Twinkling Titanite", {"missable"}),
    L("FSBT: Blessed Gem - crow for Moaning Shield", "Blessed Gem", {"missable"})
  >>

\* location_tables["High Wall of Lothric"], in the order of the literal.
TableHighWallOfLothric == <<
    L("HWL: Soul of Boreal Valley Vordt", "Soul of Boreal Valley Vordt", {"prominent", "boss"}),
    L("HWL: Soul of the Dancer", "Soul of the Dancer", {"prominent", "boss"}),
    L("HWL: Basin of Vows - Emma", "Basin of Vows", {"prominent", "progression", "conditional"}),
    L("HWL: Small Lothric Banner - Emma", "Small Lothric Banner", {"prominent", "progression"}),
    L("HWL: Green Blossom - fort walkway, hall behind wheel", "Green Blossom x2", {"hidden"}),
    L("HWL: Gold Pine Resin - corpse tower, drop", "Gold Pine Resin x2", {"hidden"}),
    L("HWL: Large Soul of a Deserted Corpse - flame plaza", "Large Soul of a Deserted Corpse", {}),
    L("HWL: Soul of a Deserted Corpse - by wall tower door", "Soul of a Deserted Corpse", {}),
    L("HWL: Standard Arrow - back tower", "Standard Arrow x12", {}),
    L("HWL: Longbow - back tower", "Longbow", {}),
    L("HWL: Firebomb - wall tower, beam", "Firebomb x3", {}),
    L("HWL: Throwing Knife - wall tower, path to Greirat", "Throwing Knife x8", {}),
    L("HWL: Soul of a Deserted Corpse - corpse tower, bottom floor", "Soul of a Deserted Corpse", {}),
    L("HWL: Club - flame plaza", "Club", {}),
    L("HWL: Claymore - flame plaza", "Claymore", {}),
    L("HWL: Ember - flame plaza", "Ember", {}),
    L("HWL: Firebomb - corpse tower, under table", "Firebomb x2", {}),
    L("HWL: Titanite Shard - wall tower, corner by bonfire", "Titanite Shard", {"hidden"}),
    L("HWL: Undead Hunter Charm - fort, room off entry, in pot", "Undead Hunter Charm x2", {"hidden"}),
    L("HWL: Firebomb - top of ladder to fountain", "Firebomb x3", {}),
    L("HWL: Cell Key - fort ground, down stairs", "Cell Key", {}),
    L("HWL: Ember - fountain #1", "Ember", {}),
    L("HWL: Soul of a Deserted Corpse - fort entry, corner", "Soul of a Deserted Corpse", {}),
    L("HWL: Lucerne - promenade, side path", "Lucerne", {}),
    L("HWL: Mail Breaker - wall tower, path to Greirat", "Mail Breaker", {}),
    L("HWL: Titanite Shard - fort ground behind crates", "Titanite Shard", {"hidden"}),
    L("HWL: Rapier - fountain, corner", "Rapier", {}),
    L("HWL: Titanite Shard - fort, room off entry", "Titanite Shard", {}),
    L("HWL: Large Soul of a Deserted Corpse - fort roof", "Large Soul of a Deserted Corpse", {}),
    L("HWL: Black Firebomb - small roof over fountain", "Black Firebomb x3", {}),
    L("HWL: Soul of a Deserted Corpse - path to corpse tower", "Soul of a Deserted Corpse", {}),
    L("HWL: Ember - fountain #2", "Ember", {}),
    L("HWL: Large Soul of a Deserted Corpse - platform by fountain", "Large Soul of a Deserted Corpse", {"hidden"}),
    L("HWL: Binoculars - corpse tower, upper platform", "Binoculars", {}),
    L("HWL: Ring of Sacrifice - awning by fountain", "Ring of Sacrifice", {"hidden"}),
    L("HWL: Throwing Knife - shortcut, lift top", "Throwing Knife x6", {}),
    L("HWL: Soul of a Deserted Corpse - path to back tower, by lift door", "Soul of a Deserted Corpse", {}),
    L("HWL: Green Blossom - shortcut, lower courtyard", "Green Blossom x3", {}),
    L("HWL: Broadsword - fort, room off walkway", "Broadsword", {}),
    L("HWL: Soul of a Deserted Corpse - fountain, path to promenade", "Soul of a Deserted Corpse", {}),
    L("HWL: Firebomb - fort roof", "Firebomb x3", {}),
    L("HWL: Soul of a Deserted Corpse - wall tower, right of exit", "Soul of a Deserted Corpse", {}),
    L("HWL: Estus Shard - fort ground, on anvil", "Estus Shard", {}),
    L("HWL: Fleshbite Ring+1 - fort roof, jump to other roof", "Fleshbite Ring+1", {"hidden"}),
    L("HWL: Ring of the Evil Eye+2 - fort ground, far wall", "Ring of the Evil Eye+2", {"hidden"}),
    L("HWL: Silver Eagle Kite Shield - fort mezzanine", "Silver Eagle Kite Shield", {}),
    L("HWL: Astora Straight Sword - fort walkway, drop down", "Astora Straight Sword", {"hidden"}),
    LS("HWL: Battle Axe - flame tower, mimic", "Battle Axe", "01,0:53000960::", {"mimic"}),
    L("HWL: Ember - fort roof, transforming hollow", "Ember", {"hidden"}),
    L("HWL: Titanite Shard - fort roof, transforming hollow", "Titanite Shard", {"hidden"}),
    L("HWL: Ember - back tower, transforming hollow", "Ember", {"hidden"}),
    L("HWL: Titanite Shard - back tower, transforming hollow", "Titanite Shard", {"hidden"}),
    L("HWL: Refined Gem - promenade miniboss", "Refined Gem", {"miniboss"}),
    L("HWL: Way of Blue - Emma", "Way of Blue", {}),
    L("HWL: Red Eye Orb - wall tower, miniboss", "Red Eye Orb", {"conditional", "miniboss", "npc"}),
    L("HWL: Raw Gem - fort roof, lizard", "Raw Gem", {"lizard"})
  >>

\* location_tables["Karla's Shop"], in the order of the literal.
TableKarlasShop == <<
    L("FS: Affinity - Karla", "Affinity", {"shop", "npc"}),
    L("FS: Dark Edge - Karla", "Dark Edge", {"shop", "npc"}),
    L("FS: Firestorm - Karla for Quelana Tome", "Firestorm", {"missable", "shop", "npc"}),
    L("FS: Rapport - Karla for Quelana Tome", "Rapport", {"missable", "shop", "npc"}),
    L("FS: Fire Whip - Karla for Quelana Tome", "Fire Whip", {"missable", "shop", "npc"}),
    L("FS: Black Flame - Karla for Grave Warden Tome", "Black Flame", {"missable", "shop", "npc"}),
    L("FS: Black Fire Orb - Karla for Grave Warden Tome", "Black Fire Orb", {"missable", "shop", "npc"}),
    L("FS: Gnaw - Karla for Deep Braille Tome", "Gnaw", {"missable", "npc", "shop"}),
    L("FS: Deep Protection - Karla for Deep Braille Tome", "Deep Protection", {"missable", "npc", "shop"}),
    L("FS: Vow of Silence - Karla for Londor Tome", "Vow of Silence", {"missable", "npc", "shop"}),
    L("FS: Dark Blade - Karla for Londor Tome", "Dark Blade", {"missable", "npc", "shop"}),
    L("FS: Dead Again - Karla for Londor Tome", "Dead Again", {"missable", "npc", "shop"}),
    LS("FS: Karla's Pointed Hat - kill Karla", "Karla's Pointed Hat", "07,0:50006150::", {"missable", "drop", "npc"}),
    LS("FS: Karla's Coat - kill Karla", "Karla's Coat", "07,0:50006150::", {"missable", "drop", "npc"}),
    LS("FS: Karla's Gloves - kill Karla", "Karla's Gloves", "07,0:50006150::", {"missable", "drop", "npc"}),
    LS("FS: Karla's Trousers - kill Karla", "Karla's Trousers", "07,0:50006150::", {"missable", "drop", "npc"})
  >>
\* The location_tables literal: region keys in declaration order.
ShippedTables == <<
    [key |-> "Cemetery of Ash", value |-> TableCemeteryOfAsh],
    [key |-> "Firelink Shrine", value |-> TableFirelinkShrine],
    [key |-> "Firelink Shrine Bell Tower", value |-> TableFirelinkShrineBellTower],
    [key |-> "High Wall of Lothric", value |-> TableHighWallOfLothric],
    [key |-> "Karla's Shop", value |-> TableKarlasShop]
  >>

----------------------------------------------------------------------------
\* Whether this location represents an event rather than a specific item pickup.
is_event(self) == self.default_item_name = None

\* __post_init__ without "SekiroLocationData.__location_id += 1".
post_init_counter_kept(self, id) ==
  LET s1 == IF ~is_event(self)
              THEN [self EXCEPT !.ap_code = IF Truthy(self.ap_code) THEN self.ap_code ELSE Some(id)]
              ELSE self
      s2 == IF s1.miniboss \/ s1.mimic \/ s1.lizard \/ s1.hostile_npc
              THEN [s1 EXCEPT !.drop = TRUE]
              ELSE s1
  IN  [self |-> s2, location_id |-> id]

\* __post_init__ with lizard left out of the drop condition.
post_init_lizard_forgotten(self, id) ==
  LET s1 == IF ~is_event(self)
              THEN [self EXCEPT !.ap_code = IF Truthy(self.ap_code) THEN self.ap_code ELSE Some(id)]
              ELSE self
      id1 == IF ~is_event(self) THEN id + 1 ELSE id
      s2 == IF s1.miniboss \/ s1.mimic \/ s1.hostile_npc
              THEN [s1 EXCEPT !.drop = TRUE]
              ELSE s1
  IN  [self |-> s2, location_id |-> id1]

\* __post_init__ with drop assigned from the four fields instead of only raised.
post_init_drop_assigned(self, id) ==
  LET s1 == IF ~is_event(self)
              THEN [self EXCEPT !.ap_code = IF Truthy(self.ap_code) THEN self.ap_code ELSE Some(id)]
              ELSE self
      id1 == IF ~is_event(self) THEN id + 1 ELSE id
      s2 == [s1 EXCEPT !.drop = s1.miniboss \/ s1.mimic \/ s1.lizard \/ s1.hostile_npc]
  IN  [self |-> s2, location_id |-> id1]

\* __post_init__ with the increment of the counter outside the "if not is_event".
post_init_counts_events(self, id) ==
  LET s1 == IF ~is_event(self)
              THEN [self EXCEPT !.ap_code = IF Truthy(self.ap_code) THEN self.ap_code ELSE Some(id)]
              ELSE self
      s2 == IF s1.miniboss \/ s1.mimic \/ s1.lizard \/ s1.hostile_npc
              THEN [s1 EXCEPT !.drop = TRUE]
              ELSE s1
  IN  [self |-> s2, location_id |-> id + 1]

\* __post_init__ on a freshly initialised record, given the class counter:
\* the record after it and the counter after it.
post_init(self, id) ==
  LET s1 == IF ~is_event(self)
              THEN [self EXCEPT !.ap_code = IF Truthy(self.ap_code) THEN self.ap_code ELSE Some(id)]
              ELSE self
      id1 == IF ~is_event(self) THEN id + 1 ELSE id
      s2 == IF s1.miniboss \/ s1.mimic \/ s1.lizard \/ s1.hostile_npc
              THEN [s1 EXCEPT !.drop = TRUE]
              ELSE s1
  IN  [self |-> s2, location_id |-> id1]

----------------------------------------------------------------------------
(* Items.py is not part of the sources at hand.  item_dictionary is modelled *)
(* from its use in location_groups: a mapping from item name to a record    *)
(* with a category and a classification.                                    *)

\* The members of SekiroItemCategory that location_groups maps to a label.
MappedCategories == {"WEAPON_UPGRADE_5", "WEAPON_UPGRADE_10", "WEAPON_UPGRADE_10_INFUSIBLE",
                     "SHIELD", "SHIELD_INFUSIBLE", "ARMOR", "RING", "SPELL", "MISC",
                     "UNIQUE", "BOSS", "SOUL", "UPGRADE", "HEALING"}

\* The dict literal of location_groups: item category -> group label.
CategoryLabel(category) ==
  CASE category = "WEAPON_UPGRADE_5" -> "Weapons"
    [] category = "WEAPON_UPGRADE_10" -> "Weapons"
    [] category = "WEAPON_UPGRADE_10_INFUSIBLE" -> "Weapons"
    [] category = "SHIELD" -> "Shields"
    [] category = "SHIELD_INFUSIBLE" -> "Shields"
    [] category = "ARMOR" -> "Armor"
    [] category = "RING" -> "Rings"
    [] category = "SPELL" -> "Spells"
    [] category = "MISC" -> "Miscellaneous"
    [] category = "UNIQUE" -> "Unique"
    [] category = "BOSS" -> "Boss Souls"
    [] category = "SOUL" -> "Small Souls"
    [] category = "UPGRADE" -> "Upgrade"
    [] category = "HEALING" -> "Healing"

\* names.append(x) when cond, as in "if self.prominent: names.append(...)".
AppendIf(names, cond, x) == IF cond THEN Append(names, x) ELSE names

\* The labels appended for the boolean fields, in the order of the code.
FlagLabels(self) ==
  LET n1 == AppendIf(<<>>, self.prominent, "Prominent")
      n2 == AppendIf(n1, self.progression, "Progression")
      n3 == AppendIf(n2, self.boss, "Boss Rewards")
      n4 == AppendIf(n3, self.miniboss, "Miniboss Rewards")
      n5 == AppendIf(n4, self.mimic, "Mimic Rewards")
      n6 == AppendIf(n5, self.hostile_npc, "Hostile NPC Rewards")
      n7 == AppendIf(n6, self.npc, "Friendly NPC Rewards")
      n8 == AppendIf(n7, self.lizard, "Small Crystal Lizards")
      n9 == AppendIf(n8, self.hidden, "Hidden")
  IN  n9

\* location_groups() without the check of the item's classification.
location_groups_flag_only(self, items) ==
  IF is_event(self) \/ self.default_item_name[1] \notin DOMAIN items
    THEN [raised |-> "KeyError", names |-> <<>>]
    ELSE LET default_item == items[self.default_item_name[1]]
         IN  IF default_item.category \notin MappedCategories
               THEN [raised |-> "KeyError", names |-> <<>>]
               ELSE [raised |-> "",
                     names |-> Append(FlagLabels(self), CategoryLabel(default_item.category))]

\* location_groups() with the category looked up by .get(category, "Miscellaneous").
location_groups_category_default(self, items) ==
  IF is_event(self) \/ self.default_item_name[1] \notin DOMAIN items
    THEN [raised |-> "KeyError", names |-> <<>>]
    ELSE LET default_item == items[self.default_item_name[1]]
             label == IF default_item.category \in MappedCategories
                        THEN CategoryLabel(default_item.category) ELSE "Miscellaneous"
         IN  [raised |-> "",
              names |-> AppendIf(Append(FlagLabels(self), label),
                                 default_item.classification = "progression",
                                 "Progression")]

\* location_groups(): the list of group names, or the KeyError of one of its
\* two lookups (the item name in item_dictionary, the category in the label map).
location_groups(self, items) ==
  IF is_event(self) \/ self.default_item_name[1] \notin DOMAIN items
    THEN [raised |-> "KeyError", names |-> <<>>]
    ELSE LET default_item == items[self.default_item_name[1]]
         IN  IF default_item.category \notin MappedCategories
               THEN [raised |-> "KeyError", names |-> <<>>]
               ELSE [raised |-> "",
                     names |-> AppendIf(Append(FlagLabels(self),
                                               CategoryLabel(default_item.category)),
                                        default_item.classification = "progression",
                                        "Progression")]

\* The literal of location_name_groups without its "Hidden" entry.
DeclaredGroups_without_hidden ==
  {"Prominent", "Progression", "Boss Rewards", "Miniboss Rewards",
   "Mimic Rewards", "Hostile NPC Rewards", "Friendly NPC Rewards",
   "Small Crystal Lizards", "Upgrade", "Small Souls", "Boss Souls",
   "Unique", "Healing", "Miscellaneous", "Weapons", "Shields",
   "Armor", "Rings", "Spells"}

\* The keys location_name_groups is declared with, each with an empty set.
DeclaredGroups == {"Prominent", "Progression", "Boss Rewards", "Miniboss Rewards",
                   "Mimic Rewards", "Hostile NPC Rewards", "Friendly NPC Rewards",
                   "Small Crystal Lizards", "Upgrade", "Small Souls", "Boss Souls",
                   "Unique", "Healing", "Miscellaneous", "Hidden", "Weapons", "Shields",
                   "Armor", "Rings", "Spells"}

\* The test of the region name left out: every region gets its group.
EndsWithShop_never(location_name) == FALSE

\* location_name.endswith(" Shop"), on the region names the model uses.
EndsWithShop(location_name) == location_name \in {"Greirat's Shop", "Karla's Shop"}

----------------------------------------------------------------------------
(* Table declarations of the shape of the literal, small enough to run the  *)
(* whole load on.                                                           *)

\* Longest record list of a declared region.
MaxLen == 2

\* An event: a record with no default item.
E(name, kw) == SekiroLocationData(name, None, None, None, kw)

\* Records declared in "Firelink Shrine".
ShrinePool == {
    L("FS: Ember - shop", "Ember", {"shop"}),
    E("FS: Shrine reached", {}),
    L("FS: Uchigatana - NPC drop", "Uchigatana", {"hostile_npc"}),
    L("FS: Skull Ring - kill Ludleth", "Skull Ring", {"hidden", "drop", "npc"}),
    L("CA: Coiled Sword - boss drop", "Coiled Sword", {"prominent", "progression", "boss"}),
    L("FS: Unlisted", "Unlisted Item", {}),
    L("FS: Uncategorised", "Uncategorised Item", {"lizard"})
  }

\* Records declared in "Karla's Shop".
ShopPool == {
    L("FS: Affinity - Karla", "Affinity", {"shop", "npc"}),
    L("FS: Ember - shop", "Dark Edge", {"shop", "conditional", "mimic"})
  }

\* The record lists declared for "Karla's Shop": empty, or one record of the pool.
ShopLists == {<<>>} \cup {<<x>> : x \in ShopPool}

\* The records declared in "Firelink Shrine Bell Tower": a record, and an event
\* that has the name of a record of the shrine pool.
TowerRecords == << L("FSBT: Twinkling Titanite - lizard behind Firelink", "Twinkling Titanite", {"lizard"}),
                   E("FS: Uchigatana - NPC drop", {}) >>

\* A region outside region_order, with one record; the record has the name of a
\* record of the shrine pool.
OutsideRegion == [key |-> "Ashina Outskirts",
                  value |-> << L("FS: Uchigatana - NPC drop", "Longbow", {"conditional"}) >>]

\* The catalog the records are looked up in: one item at least of every mapped
\* category, items of each classification, and one item of an unmapped category.
Catalog ==
  [n \in {"Ember", "Uchigatana", "Storm Curved Sword", "Longbow", "East-West Shield",
          "Yhorm's Greatshield", "Master's Attire", "Skull Ring", "Affinity", "Dark Edge",
          "Coiled Sword", "Tower Key", "Small Lothric Banner", "Soul of the Dancer",
          "Soul of a Deserted Corpse", "Twinkling Titanite", "Estus Shard",
          "Uncategorised Item"} |->
     CASE n = "Ember" -> [category |-> "MISC", classification |-> "filler"]
       [] n = "Uchigatana" -> [category |-> "WEAPON_UPGRADE_10_INFUSIBLE", classification |-> "useful"]
       [] n = "Storm Curved Sword" -> [category |-> "WEAPON_UPGRADE_5", classification |-> "useful"]
       [] n = "Longbow" -> [category |-> "WEAPON_UPGRADE_10", classification |-> "useful"]
       [] n = "East-West Shield" -> [category |-> "SHIELD_INFUSIBLE", classification |-> "filler"]
       [] n = "Yhorm's Greatshield" -> [category |-> "SHIELD", classification |-> "filler"]
       [] n = "Master's Attire" -> [category |-> "ARMOR", classification |-> "filler"]
       [] n = "Skull Ring" -> [category |-> "RING", classification |-> "useful"]
       [] n = "Affinity" -> [category |-> "SPELL", classification |-> "filler"]
       [] n = "Dark Edge" -> [category |-> "SPELL", classification |-> "filler"]
       [] n = "Coiled Sword" -> [category |-> "BOSS", classification |-> "progression"]
       [] n = "Tower Key" -> [category |-> "UNIQUE", classification |-> "progression"]
       [] n = "Small Lothric Banner" -> [category |-> "UNIQUE", classification |-> "progression_skip_balancing"]
       [] n = "Soul of the Dancer" -> [category |-> "BOSS", classification |-> "useful"]
       [] n = "Soul of a Deserted Corpse" -> [category |-> "SOUL", classification |-> "filler"]
       [] n = "Twinkling Titanite" -> [category |-> "UPGRADE", classification |-> "filler"]
       [] n = "Estus Shard" -> [category |-> "HEALING", classification |-> "useful"]
       [] n = "Uncategorised Item" -> [category |-> "SKIP", classification |-> "filler"]]

SeqsUpTo(S, n) == UNION {[1..m -> S] : m \in 0..n}

\* Every region of region_order, in that order; three of them have records.
Ordered(shrine, shop) ==
  [n \in 1..Len(region_order) |->
     [key |-> region_order[n],
      value |-> CASE region_order[n] = "Firelink Shrine" -> shrine
                  [] region_order[n] = "Karla's Shop" -> shop
                  [] region_order[n] = "Firelink Shrine Bell Tower" -> TowerRecords
                  [] OTHER -> <<>>]]

\* The declaration of a small table: in the order of region_order ("ordered"), with
\* "Karla's Shop" declared first ("shuffled"), without "Greirat's Shop" ("omitted"),
\* or with a region that region_order does not list ("outside").
SmallTables(shape, shrine, shop) ==
  LET t == Ordered(shrine, shop)
  IN  CASE shape = "ordered" -> t
        [] shape = "shuffled" -> SelectSeq(t, LAMBDA e : e.key = "Karla's Shop")
                                   \o SelectSeq(t, LAMBDA e : e.key # "Karla's Shop")
        [] shape = "omitted" -> SelectSeq(t, LAMBDA e : e.key # "Greirat's Shop")
        [] shape = "outside" -> <<OutsideRegion>> \o t

Shapes == {"ordered", "shuffled", "omitted", "outside"}

----------------------------------------------------------------------------
\* Region g of the literal still has a constructor call to evaluate.
Pending(g) == Len(location_tables[g].value) < Len(declared[g].value)

\* location_tables has the key.
HasKey(tables, key) == \E g \in 1..Len(tables) : tables[g].key = key

\* The rank pass with enumerate(region_order, 1).
SetRank_from_one(tables, key, v) ==
  [g \in 1..Len(tables) |->
     IF tables[g].key = key
       THEN [tables[g] EXCEPT !.value = [n \in 1..Len(@) |-> [@[n] EXCEPT !.region_value = v + 1]]]
       ELSE tables[g]]

\* The conditional pass applied to the " Shop" regions only.
SetConditional_shops_only(tables, key) ==
  [g \in 1..Len(tables) |->
     IF tables[g].key = key /\ tables[g].key \in {"Greirat's Shop", "Karla's Shop"}
       THEN [tables[g] EXCEPT !.value = [n \in 1..Len(@) |-> [@[n] EXCEPT !.conditional = TRUE]]]
       ELSE tables[g]]

\* The conditional pass setting missable along with conditional.
SetConditional_and_missable(tables, key) ==
  [g \in 1..Len(tables) |->
     IF tables[g].key = key
       THEN [tables[g] EXCEPT !.value = [n \in 1..Len(@) |->
                                           [@[n] EXCEPT !.conditional = TRUE, !.missable = TRUE]]]
       ELSE tables[g]]

\* The conditional pass looping over all of location_tables in each iteration.
SetConditional_every_region(tables, key) ==
  [g \in 1..Len(tables) |->
     [tables[g] EXCEPT !.value = [n \in 1..Len(@) |-> [@[n] EXCEPT !.conditional = TRUE]]]]

\* "for location in location_tables[region]: location.<field> = v", for a key present.
SetRank(tables, key, v) ==
  [g \in 1..Len(tables) |->
     IF tables[g].key = key
       THEN [tables[g] EXCEPT !.value = [n \in 1..Len(@) |-> [@[n] EXCEPT !.region_value = v]]]
       ELSE tables[g]]

SetConditional(tables, key) ==
  [g \in 1..Len(tables) |->
     IF tables[g].key = key
       THEN [tables[g] EXCEPT !.value = [n \in 1..Len(@) |-> [@[n] EXCEPT !.conditional = TRUE]]]
       ELSE tables[g]]

\* The start of the load: nothing constructed yet.
Start(d, items) ==
  /\ declared = d
  /\ item_dictionary = items
  /\ pc = "construct"
  /\ err = ""
  /\ location_id = FirstLocationId
  /\ location_tables = [g \in 1..Len(d) |-> [key |-> d[g].key, value |-> <<>>]]
  /\ i = 0 /\ c = 0 /\ r = 0 /\ j = 0
  /\ location_dictionary = <<>>
  /\ location_name_groups = <<>>
  /\ probe = [stage |-> "none"]

Init ==
  \/ Start(ShippedTables, Catalog)
  \/ \E shape \in Shapes, shrine \in SeqsUpTo(ShrinePool, MaxLen), shop \in ShopLists :
       Start(SmallTables(shape, shrine, shop), Catalog)

\* The next constructor call of the literal, in declaration order.
Construct ==
  /\ pc = "construct"
  /\ \E g \in 1..Len(declared) :
       /\ Pending(g)
       /\ \A h \in 1..(g - 1) : ~Pending(h)
       /\ LET n == Len(location_tables[g].value) + 1
              res == post_init(declared[g].value[n], location_id)
          IN  /\ location_tables' = [location_tables EXCEPT ![g].value = Append(@, res.self)]
              /\ location_id' = res.location_id
  /\ UNCHANGED <<declared, item_dictionary, pc, err, i, c, r, j,
                 location_dictionary, location_name_groups, probe>>

\* The literal is complete: location_tables is bound and the rank pass starts.
Bind ==
  /\ pc = "construct"
  /\ \A g \in 1..Len(declared) : ~Pending(g)
  /\ pc' = "rank"
  /\ UNCHANGED <<declared, item_dictionary, err, location_id, location_tables, i, c, r, j,
                 location_dictionary, location_name_groups, probe>>

\* One iteration of "for i, region in enumerate(region_order)".
RankRegion ==
  /\ pc = "rank" /\ err = ""
  /\ LET region == region_order[i + 1]
     IN  IF ~HasKey(location_tables, region)
           THEN /\ err' = "KeyError"
                /\ UNCHANGED <<location_tables, i, pc>>
           ELSE /\ location_tables' = SetRank(location_tables, region, i)
                /\ i' = i + 1
                /\ pc' = IF i + 1 = Len(region_order) THEN "conditional" ELSE "rank"
                /\ err' = err
  /\ UNCHANGED <<declared, item_dictionary, location_id, c, r, j,
                 location_dictionary, location_name_groups, probe>>

\* One iteration of the loop over the forced regions; after the last one
\* location_name_groups and location_dictionary are created.
ConditionalRegion ==
  /\ pc = "conditional" /\ err = ""
  /\ LET region == conditional_regions[c + 1]
     IN  IF ~HasKey(location_tables, region)
           THEN /\ err' = "KeyError"
                /\ UNCHANGED <<location_tables, c, pc, location_name_groups>>
           ELSE /\ location_tables' = SetConditional(location_tables, region)
                /\ c' = c + 1
                /\ err' = err
                /\ IF c + 1 = Len(conditional_regions)
                     THEN /\ pc' = IF Len(location_tables) = 0 THEN "done" ELSE "index_update"
                          /\ location_name_groups' = [label \in DeclaredGroups |-> {}]
                     ELSE UNCHANGED <<pc, location_name_groups>>
  /\ UNCHANGED <<declared, item_dictionary, location_id, i, r, j,
                 location_dictionary, probe>>

\* The names of the records of region g, and of those that are not events.
Names(tables, g) == {tables[g].value[n].name : n \in 1..Len(tables[g].value)}

\* The group of a region built from all its records, events included.
ItemNames_with_events(tables, g) == Names(tables, g)

ItemNames(tables, g) ==
  {tables[g].value[n].name : n \in {m \in 1..Len(tables[g].value) : ~is_event(tables[g].value[m])}}

\* The last record of region g with the name: the one a dict comprehension keeps.
LastNamed(tables, g, name) ==
  CHOOSE n \in 1..Len(tables[g].value) :
    /\ tables[g].value[n].name = name
    /\ \A m \in (n + 1)..Len(tables[g].value) : tables[g].value[m].name # name

\* The dictionary assigned from the region's records instead of updated with them.
DictUpdate_replaced(dict, tables, g) ==
  [name \in Names(tables, g) |-> <<g, LastNamed(tables, g, name)>>]

\* The dictionary filled with setdefault: a name already present keeps its record.
DictUpdate_first_kept(dict, tables, g) ==
  [name \in DOMAIN dict \cup Names(tables, g) |->
     IF name \in DOMAIN dict THEN dict[name] ELSE <<g, LastNamed(tables, g, name)>>]

\* The dictionary updated under the test of the region name, like the region group.
DictUpdate_open_regions_only(dict, tables, g) ==
  IF EndsWithShop(tables[g].key) THEN dict
  ELSE [name \in DOMAIN dict \cup Names(tables, g) |->
          IF name \in Names(tables, g) THEN <<g, LastNamed(tables, g, name)>> ELSE dict[name]]

\* location_dictionary.update({location_data.name: location_data for ... in location_table})
DictUpdate(dict, tables, g) ==
  [name \in DOMAIN dict \cup Names(tables, g) |->
     IF name \in Names(tables, g) THEN <<g, LastNamed(tables, g, name)>> ELSE dict[name]]

\* The loop with "location_name_groups[group_name] = {name}" for ".add(name)".
RECURSIVE AddToGroups_assigned(_, _, _)
AddToGroups_assigned(groups, names, name) ==
  IF names = <<>> THEN [raised |-> "", groups |-> groups]
  ELSE IF Head(names) \notin DOMAIN groups THEN [raised |-> "KeyError", groups |-> groups]
  ELSE AddToGroups_assigned([groups EXCEPT ![Head(names)] = {name}], Tail(names), name)

\* The loop over the group names left after its first iteration.
AddToGroups_first_only(groups, names, name) ==
  IF names = <<>> THEN [raised |-> "", groups |-> groups]
  ELSE IF Head(names) \notin DOMAIN groups THEN [raised |-> "KeyError", groups |-> groups]
  ELSE [raised |-> "", groups |-> [groups EXCEPT ![Head(names)] = @ \cup {name}]]

\* "for group_name in names: location_name_groups[group_name].add(name)": the groups
\* after it, and the KeyError of a group name that is no key.
RECURSIVE AddToGroups(_, _, _)
AddToGroups(groups, names, name) ==
  IF names = <<>> THEN [raised |-> "", groups |-> groups]
  ELSE IF Head(names) \notin DOMAIN groups THEN [raised |-> "KeyError", groups |-> groups]
  ELSE AddToGroups([groups EXCEPT ![Head(names)] = @ \cup {name}], Tail(names), name)

\* The assignment of the region group emptying the other groups.
SetGroup_others_cleared(groups, key, members) ==
  [label \in DOMAIN groups \cup {key} |-> IF label = key THEN members ELSE {}]

\* location_name_groups[location_name] = set(...)
SetGroup(groups, key, members) ==
  [label \in DOMAIN groups \cup {key} |-> IF label = key THEN members ELSE groups[label]]

\* The first statement of an iteration of "for location_name, location_table in
\* location_tables.items()": the dictionary update.
IndexUpdate ==
  /\ pc = "index_update" /\ err = ""
  /\ location_dictionary' = DictUpdate(location_dictionary, location_tables, r + 1)
  /\ j' = 0
  /\ pc' = IF Len(location_tables[r + 1].value) = 0 THEN "index_region" ELSE "index_groups"
  /\ UNCHANGED <<declared, item_dictionary, err, location_id, location_tables, i, c, r,
                 location_name_groups, probe>>

\* The iteration without "if not location_data.is_event".
IndexGroups_events_too ==
  /\ pc = "index_groups" /\ err = ""
  /\ LET location_data == location_tables[r + 1].value[j + 1]
         got == location_groups(location_data, item_dictionary)
         added == AddToGroups(location_name_groups, got.names, location_data.name)
         raised == IF got.raised # "" THEN got.raised ELSE added.raised
     IN  /\ location_name_groups' =
               IF got.raised # "" THEN location_name_groups ELSE added.groups
         /\ err' = raised
         /\ IF raised # "" THEN UNCHANGED <<j, pc>>
            ELSE /\ j' = j + 1
                 /\ pc' = IF j + 1 = Len(location_tables[r + 1].value)
                            THEN "index_region" ELSE "index_groups"
  /\ UNCHANGED <<declared, item_dictionary, location_id, location_tables, i, c, r,
                 location_dictionary, probe>>

\* One iteration of "for location_data in location_table".
IndexGroups ==
  /\ pc = "index_groups" /\ err = ""
  /\ LET location_data == location_tables[r + 1].value[j + 1]
         got == location_groups(location_data, item_dictionary)
         added == AddToGroups(location_name_groups, got.names, location_data.name)
         raised == IF is_event(location_data) THEN ""
                   ELSE IF got.raised # "" THEN got.raised ELSE added.raised
     IN  /\ location_name_groups' =
               IF is_event(location_data) \/ got.raised # "" THEN location_name_groups
               ELSE added.groups
         /\ err' = raised
         /\ IF raised # "" THEN UNCHANGED <<j, pc>>
            ELSE /\ j' = j + 1
                 /\ pc' = IF j + 1 = Len(location_tables[r + 1].value)
                            THEN "index_region" ELSE "index_groups"
  /\ UNCHANGED <<declared, item_dictionary, location_id, location_tables, i, c, r,
                 location_dictionary, probe>>

\* The last statement of the iteration: the group of the region.
IndexRegion ==
  /\ pc = "index_region" /\ err = ""
  /\ LET location_name == location_tables[r + 1].key
     IN  location_name_groups' =
           IF ~EndsWithShop(location_name)
             THEN SetGroup(location_name_groups, location_name, ItemNames(location_tables, r + 1))
             ELSE location_name_groups
  /\ r' = r + 1
  /\ pc' = IF r + 1 = Len(location_tables) THEN "done" ELSE "index_update"
  /\ UNCHANGED <<declared, item_dictionary, err, location_id, location_tables, i, c, j,
                 location_dictionary, probe>>

Next == Construct \/ Bind \/ RankRegion \/ ConditionalRegion \/ IndexUpdate \/ IndexGroups
          \/ IndexRegion

Spec == Init /\ [][Next]_vars

----------------------------------------------------------------------------
(* A single constructor call followed by one call of location_groups().     *)

\* The items a probed call names: every item of the catalog, an unlisted one, none.
ProbeItems == {None, Some("Unlisted Item")} \cup {Some(n) : n \in DOMAIN Catalog}

\* The explicit ap_code arguments tried.
ProbeCodes == {Some(0), Some(7), Some(FirstLocationId)}

\* The keyword sets passed together with an explicit ap_code.
ProbeCodeFlags == SUBSET {"miniboss", "drop", "conditional"}

\* The constructor calls tried: every set of boolean keywords with every probed
\* item and no ap_code; and calls with an explicit ap_code.
InitRecord ==
  /\ declared = <<>>
  /\ item_dictionary = Catalog
  /\ pc = "probe"
  /\ err = ""
  /\ location_id = FirstLocationId
  /\ location_tables = <<>>
  /\ i = 0 /\ c = 0 /\ r = 0 /\ j = 0
  /\ location_dictionary = <<>>
  /\ location_name_groups = <<>>
  /\ \/ \E item \in ProbeItems, kw \in SUBSET Flags :
          probe = [stage |-> "call", self |-> SekiroLocationData("probe", item, None, None, kw)]
     \/ \E item \in {None, Some("Ember")}, ap_code \in ProbeCodes, kw \in ProbeCodeFlags :
          probe = [stage |-> "call",
                   self |-> SekiroLocationData("probe", item, ap_code, None, kw)]

\* The constructor: __init__ has stored the fields, __post_init__ runs.
ProbeConstruct ==
  /\ probe.stage = "call"
  /\ LET res == post_init(probe.self, location_id)
     IN  /\ probe' = [stage |-> "constructed", self |-> res.self]
         /\ location_id' = res.location_id
  /\ UNCHANGED <<declared, item_dictionary, pc, err, i, c, r, j, location_tables,
                 location_dictionary, location_name_groups>>

\* location_groups() on the constructed record.
ProbeGroups ==
  /\ probe.stage = "constructed"
  /\ probe' = [stage |-> "classified", self |-> probe.self,
               result |-> location_groups(probe.self, item_dictionary)]
  /\ UNCHANGED <<declared, item_dictionary, pc, err, location_id, i, c, r, j, location_tables,
                 location_dictionary, location_name_groups>>

NextRecord == ProbeConstruct \/ ProbeGroups

SpecRecord == InitRecord /\ [][NextRecord]_vars
----------------------------------------------------------------------------
(* A sequence of constructor calls evaluated in a fresh process, and the    *)
(* same sequence evaluated a second time in that process.  The class        *)
(* attribute __location_id is created once, with the class.                 *)

\* Longest sequence of constructor calls.
MaxCalls == 3

\* The constructor calls of a sequence: records and events, with and without an
\* explicit ap_code (0 is an explicit ap_code that "or" treats as absent).
CallPool == {
    L("HWL: Soul of the Dancer", "Soul of the Dancer", {"prominent", "boss"}),
    L("FS: Skull Ring - kill Ludleth", "Skull Ring", {"hidden", "drop", "npc"}),
    E("FS: Shrine reached", {}),
    SekiroLocationData("FS: Ember - shop", Some("Ember"), Some(7), None, {"shop"}),
    SekiroLocationData("FS: Estus Shard - shop", Some("Estus Shard"), Some(0), None, {"shop"}),
    SekiroLocationData("FS: Gate opened", None, Some(7), None, {})
  }

InitSequence ==
  /\ declared = <<>>
  /\ item_dictionary = Catalog
  /\ pc = "sequence"
  /\ err = ""
  /\ location_id = FirstLocationId
  /\ location_tables = <<>>
  /\ i = 0 /\ c = 0 /\ r = 0 /\ j = 0
  /\ location_dictionary = <<>>
  /\ location_name_groups = <<>>
  /\ \E calls \in SeqsUpTo(CallPool, MaxCalls) :
       probe = [stage |-> "sequence", calls |-> calls, first |-> <<>>, second |-> <<>>]

\* The next constructor call of the first evaluation of the sequence.
ConstructFirst ==
  /\ probe.stage = "sequence"
  /\ Len(probe.first) < Len(probe.calls)
  /\ LET res == post_init(probe.calls[Len(probe.first) + 1], location_id)
     IN  /\ probe' = [probe EXCEPT !.first = Append(@, res.self)]
         /\ location_id' = res.location_id
  /\ UNCHANGED <<declared, item_dictionary, pc, err, i, c, r, j, location_tables,
                 location_dictionary, location_name_groups>>

\* The next constructor call of the second evaluation, after the first is complete.
ConstructAgain ==
  /\ probe.stage = "sequence"
  /\ Len(probe.first) = Len(probe.calls)
  /\ Len(probe.second) < Len(probe.calls)
  /\ LET res == post_init(probe.calls[Len(probe.second) + 1], location_id)
     IN  /\ probe' = [probe EXCEPT !.second = Append(@, res.self)]
         /\ location_id' = res.location_id
  /\ UNCHANGED <<declared, item_dictionary, pc, err, i, c, r, j, location_tables,
                 location_dictionary, location_name_groups>>

NextSequence == ConstructFirst \/ ConstructAgain

SpecSequence == InitSequence /\ [][NextSequence]_vars
----------------------------------------------------------------------------
(* The properties of the load.                                              *)

\* The records constructed so far, by their place: region g of the literal, n-th record.
Positions ==
  UNION {{<<g, n>> : n \in 1..Len(location_tables[g].value)} : g \in 1..Len(location_tables)}

Rec(p) == location_tables[p[1]].value[p[2]]
Key(p) == location_tables[p[1]].key
Call(p) == declared[p[1]].value[p[2]]

\* p is declared before q in the literal.
Before(p, q) == p[1] < q[1] \/ (p[1] = q[1] /\ p[2] < q[2])

\* The index of a region in region_order, counted from 0 (list.index).
InOrder(key) == \E n \in 1..Len(region_order) : region_order[n] = key
IndexOf(key) == (CHOOSE n \in 1..Len(region_order) :
                   region_order[n] = key /\ \A m \in 1..(n - 1) : region_order[m] # key) - 1

Forced(key) == \E n \in 1..Len(conditional_regions) : conditional_regions[n] = key

\* No two records constructed so far have the same name.
NamesDistinct ==
  LET all == Positions IN \A p, q \in all : p # q => Rec(p).name # Rec(q).name

AfterRank == pc \in {"conditional", "index_update", "index_groups", "index_region", "done"}
AfterConditional == pc \in {"index_update", "index_groups", "index_region", "done"}

\* C1: the ap_code of the non-event records of the tables strictly increases with
\* the declaration order (regions in the order of the literal, records in list
\* order), hence is unique.
C1_CodesIncrease ==
  LET items == {p \in Positions : ~is_event(Rec(p))}
  IN  /\ \A p \in items : Rec(p).ap_code # None
      /\ \A p, q \in items : Before(p, q) => Rec(p).ap_code[1] < Rec(q).ap_code[1]

\* Two non-event records, the earlier declared one in a region that region_order
\* lists later, with increasing codes.
C1_Witness ==
  \E p, q \in Positions :
    /\ ~is_event(Rec(p)) /\ ~is_event(Rec(q)) /\ Before(p, q)
    /\ InOrder(Key(p)) /\ InOrder(Key(q)) /\ IndexOf(Key(p)) > IndexOf(Key(q))
    /\ Rec(p).ap_code[1] < Rec(q).ap_code[1]

\* C2: after construction ap_code is present if and only if default_item_name is,
\* for every constructor call, an explicit ap_code included.
C2_CodeIffItem ==
  probe.stage \in {"constructed", "classified"} =>
    (probe.self.ap_code # None <=> ~is_event(probe.self))

\* C3: once the rank pass is over, every record of a region that region_order
\* lists has the index of its region in region_order as region_value.
C3_RankIsIndex ==
  AfterRank =>
    \A p \in Positions : InOrder(Key(p)) => Rec(p).region_value = IndexOf(Key(p))

\* The load is over and a record of "Karla's Shop" has rank 12.
C3_Witness ==
  /\ pc = "done"
  /\ \E p \in Positions : Key(p) = "Karla's Shop" /\ Rec(p).region_value = 12

\* C4: in every state, a constructed record with miniboss, mimic, hostile_npc or
\* lizard true has drop true.
C4_FlagsImplyDrop ==
  \A p \in Positions :
    (Rec(p).miniboss \/ Rec(p).mimic \/ Rec(p).hostile_npc \/ Rec(p).lizard) => Rec(p).drop

\* The load is over and a record declared with lizard and without drop has drop.
C4_Witness ==
  /\ pc = "done"
  /\ \E p \in Positions : Rec(p).lizard /\ ~Call(p).drop /\ Rec(p).drop

\* C5, as stated: drop is true only if one of miniboss, mimic, hostile_npc, lizard is.
C5_DropOnlyFromFlags ==
  \A p \in Positions :
    Rec(p).drop => (Rec(p).miniboss \/ Rec(p).mimic \/ Rec(p).hostile_npc \/ Rec(p).lizard)

\* C5, amended: drop is true exactly when the constructor was passed drop=True or
\* one of miniboss, mimic, hostile_npc, lizard is true.
C5_DropFromFlagsOrArgument ==
  \A p \in Positions :
    Rec(p).drop <=>
      (Call(p).drop \/ Rec(p).miniboss \/ Rec(p).mimic \/ Rec(p).hostile_npc \/ Rec(p).lizard)

\* A record of the shipped tables has drop from its declaration alone, and another
\* one from its hostile_npc field alone.
C5_Witness ==
  /\ declared = ShippedTables
  /\ \E p, q \in Positions :
       /\ Rec(p).drop /\ Call(p).drop
       /\ ~(Rec(p).miniboss \/ Rec(p).mimic \/ Rec(p).hostile_npc \/ Rec(p).lizard)
       /\ Rec(q).drop /\ ~Call(q).drop /\ Rec(q).hostile_npc

\* C6: once the conditional pass is over, every record of "Firelink Shrine Bell
\* Tower", "Greirat's Shop" and "Karla's Shop" has conditional true.
C6_ForcedConditional ==
  AfterConditional => \A p \in Positions : Forced(Key(p)) => Rec(p).conditional

\* The load is over, and records of "Karla's Shop" and of the bell tower that were
\* declared without conditional have it.
C6_Witness ==
  /\ pc = "done"
  /\ \E p, q \in Positions :
       /\ Key(p) = "Karla's Shop" /\ ~Call(p).conditional /\ Rec(p).conditional
       /\ Key(q) = "Firelink Shrine Bell Tower" /\ ~Call(q).conditional /\ Rec(q).conditional

\* C7: the names of the shipped tables are pairwise distinct; and when the names
\* of the tables are pairwise distinct, after the index loop the dictionary maps
\* the name of every record to that very record.
C7_LookupReturnsRecord ==
  /\ declared = ShippedTables => NamesDistinct
  /\ (pc = "done" /\ NamesDistinct) =>
       \A p \in Positions :
         /\ Rec(p).name \in DOMAIN location_dictionary
         /\ location_dictionary[Rec(p).name] = p

\* The load is over on tables with distinct names and records in three regions.
C7_Witness ==
  /\ pc = "done" /\ NamesDistinct
  /\ Cardinality({p[1] : p \in Positions}) >= 3
  /\ \A p \in Positions : location_dictionary[Rec(p).name] = p

\* The region keys that are groups, and the names of the records that are not events.
RegionGroups ==
  {location_tables[g].key : g \in 1..Len(location_tables)} \cap DOMAIN location_name_groups
AllItemNames == {Rec(p).name : p \in {q \in Positions : ~is_event(Rec(q))}}
OpenItemNames ==
  {Rec(p).name : p \in {q \in Positions : ~is_event(Rec(q)) /\ ~EndsWithShop(Key(q))}}

\* C8, as stated: after the index loop the groups named after regions are pairwise
\* disjoint and their union is the set of the names of all non-event records.
C8_RegionGroupsCoverAll ==
  pc = "done" =>
    /\ \A a, b \in RegionGroups :
         a # b => location_name_groups[a] \cap location_name_groups[b] = {}
    /\ UNION {location_name_groups[a] : a \in RegionGroups} = AllItemNames

\* C8, amended: after the index loop there is a group named after every region
\* whose name does not end in " Shop" and after no other region; it holds the names
\* of the non-event records of its region, so the union of these groups is the set
\* of the names of the non-event records outside the " Shop" regions; and they are
\* pairwise disjoint when the names of the tables are pairwise distinct.
C8_RegionGroupsCoverOpen ==
  pc = "done" =>
    /\ \A g \in 1..Len(location_tables) :
         IF EndsWithShop(location_tables[g].key)
           THEN location_tables[g].key \notin DOMAIN location_name_groups
           ELSE /\ location_tables[g].key \in DOMAIN location_name_groups
                /\ location_name_groups[location_tables[g].key] =
                     {Rec(p).name : p \in {q \in Positions : q[1] = g /\ ~is_event(Rec(q))}}
    /\ UNION {location_name_groups[a] : a \in RegionGroups} = OpenItemNames
    /\ NamesDistinct =>
         \A a, b \in RegionGroups :
           a # b => location_name_groups[a] \cap location_name_groups[b] = {}

\* The load is over on tables with distinct names; "Karla's Shop" has a non-event
\* record, in no group of a region, and "Firelink Shrine" an event and a non-event.
C8_Witness ==
  /\ pc = "done" /\ NamesDistinct
  /\ \E p, q, e \in Positions :
       /\ Key(p) = "Karla's Shop" /\ ~is_event(Rec(p))
       /\ \A a \in RegionGroups : Rec(p).name \notin location_name_groups[a]
       /\ Key(q) = "Firelink Shrine" /\ ~is_event(Rec(q))
       /\ Rec(q).name \in location_name_groups["Firelink Shrine"]
       /\ Key(e) = "Firelink Shrine" /\ is_event(Rec(e))

\* The labels of the boolean fields that hold for the record, and with them
\* "Progression" when the item of the record is classified progression.
FieldLabels(self, item) ==
  {label \in {"Prominent", "Progression", "Boss Rewards", "Miniboss Rewards", "Mimic Rewards",
              "Hostile NPC Rewards", "Friendly NPC Rewards", "Small Crystal Lizards", "Hidden"} :
     \/ label = "Prominent" /\ self.prominent
     \/ label = "Progression" /\ (self.progression \/ item.classification = "progression")
     \/ label = "Boss Rewards" /\ self.boss
     \/ label = "Miniboss Rewards" /\ self.miniboss
     \/ label = "Mimic Rewards" /\ self.mimic
     \/ label = "Hostile NPC Rewards" /\ self.hostile_npc
     \/ label = "Friendly NPC Rewards" /\ self.npc
     \/ label = "Small Crystal Lizards" /\ self.lizard
     \/ label = "Hidden" /\ self.hidden}

\* The eleven labels of the item categories.
CategoryGroups == {"Weapons", "Shields", "Armor", "Rings", "Spells", "Miscellaneous", "Unique",
                   "Boss Souls", "Small Souls", "Upgrade", "Healing"}

Range(seq) == {seq[n] : n \in 1..Len(seq)}

\* C9: when location_groups() returns, the set of the labels returned is the labels
\* of the boolean fields that hold, "Progression" also for an item classified
\* progression, and the one label of the item's category; nothing else.
C9_LabelsExact ==
  (probe.stage = "classified" /\ probe.result.raised = "") =>
    LET item == item_dictionary[probe.self.default_item_name[1]]
        labels == Range(probe.result.names)
    IN  /\ labels \ CategoryGroups = FieldLabels(probe.self, item)
        /\ labels \cap CategoryGroups = {CategoryLabel(item.category)}

\* A record with missable, drop, shop and conditional, without the progression
\* field, of an item classified progression: "Progression" and two labels.
C9_Witness ==
  /\ probe.stage = "classified" /\ probe.result.raised = ""
  /\ probe.self.missable /\ probe.self.drop /\ probe.self.shop /\ probe.self.conditional
  /\ probe.self.boss /\ ~probe.self.progression
  /\ item_dictionary[probe.self.default_item_name[1]].classification = "progression"
  /\ Range(probe.result.names) = {"Progression", "Boss Rewards", "Boss Souls"}

\* C10: after the index loop, on tables with pairwise distinct names, the name of
\* every non-event record is in exactly one of the eleven category groups, the one
\* of the category of its default item.
C10_OneCategoryGroup ==
  (pc = "done" /\ NamesDistinct) =>
    \A p \in Positions :
      ~is_event(Rec(p)) =>
        {label \in CategoryGroups : Rec(p).name \in location_name_groups[label]}
          = {CategoryLabel(item_dictionary[Rec(p).default_item_name[1]].category)}

\* The load is over on tables with distinct names, with a record with field labels
\* in "Rings" and a record in "Spells".
C10_Witness ==
  /\ pc = "done" /\ NamesDistinct
  /\ \E p, q \in Positions :
       /\ Rec(p).hidden /\ Rec(p).name \in location_name_groups["Rings"]
       /\ Rec(p).name \in location_name_groups["Hidden"]
       /\ Rec(q).name \in location_name_groups["Spells"]

\* C11: when location_tables has a region that region_order does not list, the
\* load does not get past the rank pass.
C11_OutsideRegionStopsLoad ==
  (\E g \in 1..Len(location_tables) : ~InOrder(location_tables[g].key)) => ~AfterRank

\* The record has no item that item_dictionary lists with a mapped category.
Unclassifiable(self, items) ==
  \/ is_event(self)
  \/ self.default_item_name[1] \notin DOMAIN items
  \/ items[self.default_item_name[1]].category \notin MappedCategories

\* C12: in the index loop, location_groups() raises on a non-event record exactly
\* when the record's item is not in item_dictionary or the item's category is not
\* one of the 14 mapped ones; the error is not caught: the step that raises adds
\* the name to no group and leaves the loop where it is, and no step of the load
\* follows an error.
C12_ClassificationErrorStopsBuild ==
  [][/\ err = ""
     /\ (pc = "index_groups" /\ ~is_event(location_tables[r + 1].value[j + 1])) =>
          /\ err' = "KeyError"
               <=> Unclassifiable(location_tables[r + 1].value[j + 1], item_dictionary)
          /\ err' # "" =>
               /\ location_name_groups' = location_name_groups
               /\ location_dictionary' = location_dictionary
               /\ pc' = pc /\ r' = r /\ j' = j]_vars

\* The index loop has stopped on a record whose item has an unmapped category, with
\* a region after it that was never reached: its names are not in the dictionary.
C12_Witness ==
  /\ pc = "index_groups" /\ err = "KeyError"
  /\ LET location_data == location_tables[r + 1].value[j + 1]
     IN  /\ location_data.default_item_name = Some("Uncategorised Item")
         /\ \A label \in DOMAIN location_name_groups :
              location_data.name \notin location_name_groups[label]
  /\ \E p \in Positions : p[1] > r + 1 /\ Rec(p).name \notin DOMAIN location_dictionary

\* C13: the load ends in one of two ways only. When it has finished, every record
\* has the index of its region as region_value, the records of the forced regions
\* are conditional, every name is in location_dictionary and every non-event name
\* in the groups of its labels. When it has stopped on an error, the pass that
\* raised has written nothing: no region_value if it is the rank pass, no
\* conditional if it is the conditional pass, no entry of location_dictionary
\* and no group member if it is the index loop.
C13_NoPartialSuccess ==
  /\ pc = "done" =>
       \A p \in Positions :
         /\ InOrder(Key(p)) /\ Rec(p).region_value = IndexOf(Key(p))
         /\ Forced(Key(p)) => Rec(p).conditional
         /\ Rec(p).name \in DOMAIN location_dictionary
         /\ ~is_event(Rec(p)) =>
              \A label \in Range(location_groups(Rec(p), item_dictionary).names) :
                Rec(p).name \in location_name_groups[label]
  /\ (err # "" /\ pc = "rank") =>
       \A p \in Positions : Rec(p).region_value = 0
  /\ (err # "" /\ pc = "conditional") =>
       \A p \in Positions : Rec(p).conditional = Call(p).conditional
  /\ (err # "" /\ pc \in {"index_update", "index_groups", "index_region"}) =>
       /\ DOMAIN location_dictionary = {}
       /\ \A label \in DOMAIN location_name_groups : location_name_groups[label] = {}

----------------------------------------------------------------------------
(* Bosses.py: the boss records and the locations each of them blocks.       *)

\* The dataclass SekiroBossInfo; locations defaults to the empty set.
SekiroBossInfo(name, id, locations) == [name |-> name, id |-> id, locations |-> locations]

all_bosses == <<
    SekiroBossInfo("Iudex Gundyr", 4000800, {
         "CA: Coiled Sword - boss drop"}),
    SekiroBossInfo("Vordt of the Boreal Valley", 3000800, {
         "HWL: Soul of Boreal Valley Vordt"}),
    SekiroBossInfo("Curse-rotted Greatwood", 3100800, {
         "US: Soul of the Rotted Greatwood",
         "US: Transposing Kiln - boss drop",
         "US: Wargod Wooden Shield - Pit of Hollows",
         "FS: Hawkwood's Shield - gravestone after Hawkwood leaves",
         "FS: Sunset Shield - by grave after killing Hodrick w/Sirris",
         "US: Sunset Helm - Pit of Hollows after killing Hodrick w/Sirris",
         "US: Sunset Armor - pit of hollows after killing Hodrick w/Sirris",
         "US: Sunset Gauntlets - pit of hollows after killing Hodrick w/Sirris",
         "US: Sunset Leggings - pit of hollows after killing Hodrick w/Sirris",
         "FS: Sunless Talisman - Sirris, kill GA boss",
         "FS: Sunless Veil - shop, Sirris quest, kill GA boss",
         "FS: Sunless Armor - shop, Sirris quest, kill GA boss",
         "FS: Sunless Gauntlets - shop, Sirris quest, kill GA boss",
         "FS: Sunless Leggings - shop, Sirris quest, kill GA boss"}),
    SekiroBossInfo("Crystal Sage", 3300850, {
         "RS: Soul of a Crystal Sage",
         "FS: Sage's Big Hat - shop after killing RS boss",
         "FS: Hawkwood's Shield - gravestone after Hawkwood leaves"}),
    SekiroBossInfo("Deacons of the Deep", 3500800, {
         "CD: Soul of the Deacons of the Deep",
         "CD: Small Doll - boss drop",
         "CD: Archdeacon White Crown - boss room after killing boss",
         "CD: Archdeacon Holy Garb - boss room after killing boss",
         "CD: Archdeacon Skirt - boss room after killing boss",
         "FS: Hawkwood's Shield - gravestone after Hawkwood leaves"}),
    SekiroBossInfo("Abyss Watchers", 3300801, {
         "FK: Soul of the Blood of the Wolf",
         "FK: Cinders of a Lord - Abyss Watcher",
         "FS: Undead Legion Helm - shop after killing FK boss",
         "FS: Undead Legion Armor - shop after killing FK boss",
         "FS: Undead Legion Gauntlet - shop after killing FK boss",
         "FS: Undead Legion Leggings - shop after killing FK boss",
         "FS: Farron Ring - Hawkwood",
         "FS: Hawkwood's Shield - gravestone after Hawkwood leaves"}),
    SekiroBossInfo("High Lord Wolnir", 3800800, {
         "CC: Soul of High Lord Wolnir",
         "FS: Wolnir's Crown - shop after killing CC boss",
         "CC: Homeward Bone - Irithyll bridge",
         "CC: Pontiff's Right Eye - Irithyll bridge, miniboss drop"}),
    SekiroBossInfo("Pontiff Sulyvahn", 3700850, {
         "IBV: Soul of Pontiff Sulyvahn"}),
    SekiroBossInfo("Old Demon King", 3800830, {
         "SL: Soul of the Old Demon King"}),
    SekiroBossInfo("Aldrich, Devourer of Gods", 3700800, {
         "AL: Soul of Aldrich",
         "AL: Cinders of a Lord - Aldrich",
         "FS: Smough's Helm - shop after killing AL boss",
         "FS: Smough's Armor - shop after killing AL boss",
         "FS: Smough's Gauntlets - shop after killing AL boss",
         "FS: Smough's Leggings - shop after killing AL boss",
         "AL: Sun Princess Ring - dark cathedral, after boss",
         "FS: Leonhard's Garb - shop after killing Leonhard",
         "FS: Leonhard's Gauntlets - shop after killing Leonhard",
         "FS: Leonhard's Trousers - shop after killing Leonhard"}),
    SekiroBossInfo("Dancer of the Boreal Valley", 3000899, {
         "HWL: Soul of the Dancer",
         "FS: Dancer's Crown - shop after killing LC entry boss",
         "FS: Dancer's Armor - shop after killing LC entry boss",
         "FS: Dancer's Gauntlets - shop after killing LC entry boss",
         "FS: Dancer's Leggings - shop after killing LC entry boss"}),
    SekiroBossInfo("Dragonslayer Armour", 3010800, {
         "LC: Soul of Dragonslayer Armour",
         "FS: Morne's Helm - shop after killing Eygon or LC boss",
         "FS: Morne's Armor - shop after killing Eygon or LC boss",
         "FS: Morne's Gauntlets - shop after killing Eygon or LC boss",
         "FS: Morne's Leggings - shop after killing Eygon or LC boss",
         "LC: Titanite Chunk - down stairs after boss"}),
    SekiroBossInfo("Consumed King Oceiros", 3000830, {
         "CKG: Soul of Consumed Oceiros",
         "CKG: Titanite Scale - tomb, chest #1",
         "CKG: Titanite Scale - tomb, chest #2",
         "CKG: Drakeblood Helm - tomb, after killing AP mausoleum NPC",
         "CKG: Drakeblood Armor - tomb, after killing AP mausoleum NPC",
         "CKG: Drakeblood Gauntlets - tomb, after killing AP mausoleum NPC",
         "CKG: Drakeblood Leggings - tomb, after killing AP mausoleum NPC"}),
    SekiroBossInfo("Champion Gundyr", 4000830, {
         "UG: Soul of Champion Gundyr",
         "FS: Gundyr's Helm - shop after killing UG boss",
         "FS: Gundyr's Armor - shop after killing UG boss",
         "FS: Gundyr's Gauntlets - shop after killing UG boss",
         "FS: Gundyr's Leggings - shop after killing UG boss",
         "UG: Hornet Ring - environs, right of main path after killing FK boss",
         "UG: Chaos Blade - environs, left of shrine",
         "UG: Blacksmith Hammer - shrine, Andre's room",
         "UG: Eyes of a Fire Keeper - shrine, Irina's room",
         "UG: Coiled Sword Fragment - shrine, dead bonfire",
         "UG: Soul of a Crestfallen Knight - environs, above shrine entrance",
         "UG: Life Ring+3 - shrine, behind big throne",
         "UG: Ring of Steel Protection+1 - environs, behind bell tower",
         "FS: Ring of Sacrifice - Yuria shop",
         "UG: Ember - shop",
         "UG: Priestess Ring - shop",
         "UG: Wolf Knight Helm - shop after killing FK boss",
         "UG: Wolf Knight Armor - shop after killing FK boss",
         "UG: Wolf Knight Gauntlets - shop after killing FK boss",
         "UG: Wolf Knight Leggings - shop after killing FK boss"}),
    SekiroBossInfo("Ancient Wyvern", 3200800, {}),
    SekiroBossInfo("King of the Storm", 3200850, {
         "AP: Soul of the Nameless King",
         "FS: Golden Crown - shop after killing AP boss",
         "FS: Dragonscale Armor - shop after killing AP boss",
         "FS: Golden Bracelets - shop after killing AP boss",
         "FS: Dragonscale Waistcloth - shop after killing AP boss",
         "AP: Titanite Slab - plaza",
         "AP: Covetous Gold Serpent Ring+2 - plaza",
         "AP: Dragonslayer Helm - plaza",
         "AP: Dragonslayer Armor - plaza",
         "AP: Dragonslayer Gauntlets - plaza",
         "AP: Dragonslayer Leggings - plaza"}),
    SekiroBossInfo("Nameless King", 3200851, {
         "AP: Soul of the Nameless King",
         "FS: Golden Crown - shop after killing AP boss",
         "FS: Dragonscale Armor - shop after killing AP boss",
         "FS: Golden Bracelets - shop after killing AP boss",
         "FS: Dragonscale Waistcloth - shop after killing AP boss",
         "AP: Titanite Slab - plaza",
         "AP: Covetous Gold Serpent Ring+2 - plaza",
         "AP: Dragonslayer Helm - plaza",
         "AP: Dragonslayer Armor - plaza",
         "AP: Dragonslayer Gauntlets - plaza",
         "AP: Dragonslayer Leggings - plaza"}),
    SekiroBossInfo("Lothric, Younger Prince", 3410830, {
         "GA: Soul of the Twin Princes",
         "GA: Cinders of a Lord - Lothric Prince"}),
    SekiroBossInfo("Lorian, Elder Prince", 3410832, {
         "GA: Soul of the Twin Princes",
         "GA: Cinders of a Lord - Lothric Prince",
         "FS: Lorian's Helm - shop after killing GA boss",
         "FS: Lorian's Armor - shop after killing GA boss",
         "FS: Lorian's Gauntlets - shop after killing GA boss",
         "FS: Lorian's Leggings - shop after killing GA boss"})
  >>

default_yhorm_location ==
  SekiroBossInfo("Yhorm the Giant", 3900800, {
       "PC: Soul of Yhorm the Giant",
       "PC: Cinders of a Lord - Yhorm the Giant",
       "PC: Siegbr??u - Siegward after killing boss"})

\* The location names the boss records refer to.
BossLocations ==
  UNION {all_bosses[n].locations : n \in 1..Len(all_bosses)} \cup default_yhorm_location.locations

\* C14: once the shipped tables are constructed, every location name of every
\* boss record (all_bosses and default_yhorm_location) is the name of a record of
\* location_tables.
C14_BossLocationsDeclared ==
  (declared = ShippedTables /\ pc # "construct") =>
    \A name \in BossLocations : \E p \in Positions : Rec(p).name = name

\* C15 as stated: no step changes a field other than region_value of a record
\* that is constructed.
C15_OnlyRankChanges ==
  [][\A p \in Positions :
       LET after == location_tables'[p[1]].value[p[2]]
       IN  [after EXCEPT !.region_value = Rec(p).region_value] = Rec(p)]_vars

\* C15: the steps of the load change two fields of a constructed record and no
\* other: region_value, written by the rank pass in the iteration of the record's
\* region and not changed again, and conditional, set to TRUE by the conditional
\* pass on the records of the forced regions.
C15_OnlyRankAndConditionalChange ==
  [][\A p \in Positions :
       LET after == location_tables'[p[1]].value[p[2]]
       IN  /\ [after EXCEPT !.region_value = Rec(p).region_value,
                            !.conditional = Rec(p).conditional] = Rec(p)
           /\ after.region_value # Rec(p).region_value =>
                /\ pc = "rank" /\ Key(p) = region_order[i + 1]
                /\ Rec(p).region_value = 0 /\ after.region_value = i
           /\ after.conditional # Rec(p).conditional =>
                /\ pc = "conditional" /\ Forced(Key(p)) /\ after.conditional]_vars

\* The load is over; the record of the bell tower, declared without conditional,
\* is conditional and ranked 18, and its other fields are those of construction.
C15_Witness ==
  /\ pc = "done"
  /\ \E p \in Positions :
       /\ Key(p) = "Firelink Shrine Bell Tower"
       /\ ~Call(p).conditional /\ Rec(p).conditional /\ Rec(p).region_value = 18
       /\ \E id \in FirstLocationId..(location_id - 1) :
            [Rec(p) EXCEPT !.region_value = 0, !.conditional = FALSE]
              = post_init(Call(p), id).self

\* C16: when a sequence of constructor calls has been evaluated twice in the same
\* process, the n-th record of the second evaluation has the ap_code of the n-th
\* record of the first.
C16_SameCodesAgain ==
  (probe.stage = "sequence" /\ Len(probe.second) = Len(probe.calls)) =>
    \A n \in 1..Len(probe.calls) : probe.second[n].ap_code = probe.first[n].ap_code

\* C17: after the index loop, every region of location_tables whose name does not
\* end in " Shop" is a key of location_name_groups, with exactly the names of the
\* region's non-event records as members; a region whose name ends in " Shop" is
\* no key of location_name_groups.
C17_RegionGroupPerOpenRegion ==
  pc = "done" =>
    \A g \in 1..Len(location_tables) :
      LET key == location_tables[g].key
      IN  IF key \in {"Greirat's Shop", "Karla's Shop"}
            THEN key \notin DOMAIN location_name_groups
            ELSE /\ key \in DOMAIN location_name_groups
                 /\ location_name_groups[key]
                      = {Rec(p).name : p \in {q \in Positions : q[1] = g /\ ~is_event(Rec(q))}}

\* The load is over: the group "Firelink Shrine" has a member and leaves out the
\* event declared in the region, the group of an empty region is empty, and
\* "Karla's Shop", which has a record, is no group.
C17_Witness ==
  /\ pc = "done"
  /\ location_name_groups["Firelink Shrine"] # {}
  /\ \E p \in Positions :
       /\ Key(p) = "Firelink Shrine" /\ is_event(Rec(p))
       /\ Rec(p).name \notin location_name_groups["Firelink Shrine"]
  /\ location_name_groups["Anor Londo"] = {}
  /\ \E p \in Positions : Key(p) = "Karla's Shop" /\ ~is_event(Rec(p))
  /\ "Karla's Shop" \notin DOMAIN location_name_groups

\* The constructor calls evaluated so far in the process, and their records.
CallsSoFar == SubSeq(probe.calls \o probe.calls, 1, Len(probe.first) + Len(probe.second))
RecordsSoFar == probe.first \o probe.second

\* The number of non-event records among the first n constructed.
ItemsAmong(n) == Cardinality({m \in 1..n : ~is_event(CallsSoFar[m])})

\* C18: a non-event record constructed without an ap_code argument after k other
\* non-event records has ap_code 100000 + k; an event keeps the ap_code it was
\* called with (none, without the argument), and the counter stands at 100000
\* plus the number of non-event records constructed: events do not advance it.
C18_CodeIsBasePlusCount ==
  probe.stage = "sequence" =>
    /\ \A n \in 1..Len(RecordsSoFar) :
         /\ (~is_event(CallsSoFar[n]) /\ CallsSoFar[n].ap_code = None) =>
              RecordsSoFar[n].ap_code = Some(100000 + ItemsAmong(n - 1))
         /\ is_event(CallsSoFar[n]) => RecordsSoFar[n].ap_code = CallsSoFar[n].ap_code
    /\ location_id = 100000 + ItemsAmong(Len(RecordsSoFar))

\* Three calls without ap_code have been evaluated, an event between two records:
\* the records have 100000 and 100001, the event has no ap_code, and the counter
\* stands at 100002.
C18_Witness ==
  /\ probe.stage = "sequence" /\ Len(probe.first) = 3 /\ Len(probe.second) = 0
  /\ \A n \in 1..3 : probe.calls[n].ap_code = None
  /\ probe.first[1].ap_code = Some(100000)
  /\ is_event(probe.first[2]) /\ probe.first[2].ap_code = None
  /\ probe.first[3].ap_code = Some(100001)
  /\ location_id = 100002

\* C19: the index loop does not classify an event: its iteration on an event
\* record raises nothing and leaves every group as it is; and at every point of
\* the load each member of each group, a classification group or the group of a
\* region, is the name of a non-event record, so that the name of an event is in
\* no group unless a non-event record has the same name.
C19_EventsInNoGroup ==
  /\ [](\A label \in DOMAIN location_name_groups :
          \A name \in location_name_groups[label] :
            \E p \in Positions : ~is_event(Rec(p)) /\ Rec(p).name = name)
  /\ [][(pc = "index_groups" /\ is_event(location_tables[r + 1].value[j + 1])) =>
          (err' = "" /\ location_name_groups' = location_name_groups /\ j' = j + 1)]_vars

\* The load is over on tables with an event: the event is a key of
\* location_dictionary and a member of no group, while a record of its region is a
\* member of the group of the region and of a classification group.
C19_Witness ==
  /\ pc = "done"
  /\ \E p, q \in Positions :
       /\ is_event(Rec(p)) /\ ~is_event(Rec(q)) /\ p[1] = q[1]
       /\ Rec(p).name \in DOMAIN location_dictionary
       /\ \A label \in DOMAIN location_name_groups :
            Rec(p).name \notin location_name_groups[label]
       /\ Rec(q).name \in location_name_groups[Key(q)]
       /\ \E label \in DeclaredGroups : Rec(q).name \in location_name_groups[label]

\* C20: after the index loop, location_dictionary maps every name to the record
\* declared last under that name, so to the record of the later region when two
\* regions declare the name; and the name of every non-event record is a member
\* of the group of each of that record's labels, the labels of a record that the
\* dictionary no longer holds included.
C20_LastDeclaredWins ==
  pc = "done" =>
    /\ \A p \in Positions :
         (\A q \in Positions : Rec(q).name = Rec(p).name => (q = p \/ Before(q, p)))
           => location_dictionary[Rec(p).name] = p
    /\ \A p \in Positions :
         ~is_event(Rec(p)) =>
           \A label \in Range(location_groups(Rec(p), item_dictionary).names) :
             Rec(p).name \in location_name_groups[label]

\* The load is over on tables where "Firelink Shrine" and then "Karla's Shop"
\* declare the same name: the dictionary holds the record of the shop, and the
\* name is in "Miscellaneous", a label of the shrine's record only, as well as in
\* "Spells" and "Mimic Rewards", labels of the shop's record.
C20_Witness ==
  /\ pc = "done"
  /\ \E p, q \in Positions :
       /\ Key(p) = "Firelink Shrine" /\ Key(q) = "Karla's Shop" /\ p[1] < q[1]
       /\ Rec(p).name = Rec(q).name
       /\ Rec(p).default_item_name = Some("Ember")
       /\ Rec(q).default_item_name = Some("Dark Edge")
       /\ location_dictionary[Rec(p).name] = q
       /\ Rec(p).name \in location_name_groups["Miscellaneous"]
       /\ Rec(p).name \in location_name_groups["Spells"]
       /\ Rec(p).name \in location_name_groups["Mimic Rewards"]

\* The declarations of the tables without their order: the set of region names,
\* and the set of pairs of a region name and a constructor call.
DeclaredKeys == {declared[g].key : g \in 1..Len(declared)}
DeclaredCalls ==
  UNION {{<<declared[g].key, declared[g].value[n]>> : n \in 1..Len(declared[g].value)} :
           g \in 1..Len(declared)}

\* The group index as a function of these two sets alone: a classification group
\* holds the names of the non-event calls that have the label among theirs, the
\* group of a region the names of the non-event calls of the region.
OrderFreeGroups ==
  LET items == {d \in DeclaredCalls : ~is_event(d[2])}
      open == {key \in DeclaredKeys : key \notin {"Greirat's Shop", "Karla's Shop"}}
  IN  [label \in DeclaredGroups \cup open |->
         IF label \in open
           THEN {d[2].name : d \in {e \in items : e[1] = label}}
           ELSE {d[2].name : d \in {e \in items :
                   label \in Range(location_groups(e[2], item_dictionary).names)}}]

\* C21: the group index the load ends with is determined by the unordered content
\* of the tables: it is the same mapping from label to set of names whatever the
\* order of the regions, of the records in a region, and of the labels that
\* location_groups() returns, a label returned twice included.
C21_GroupsOrderFree ==
  pc = "done" => location_name_groups = OrderFreeGroups

\* The load is over on tables that declare "Karla's Shop" before the regions that
\* precede it in region_order, with two records in "Firelink Shrine", one of which
\* has "Progression" twice in its labels; the index is the order-free one.
C21_Witness ==
  /\ pc = "done"
  /\ declared[1].key = "Karla's Shop" /\ Len(declared[1].value) = 1
  /\ \E p, q \in Positions :
       /\ Key(p) = "Firelink Shrine" /\ Key(q) = "Firelink Shrine" /\ p # q
       /\ ~is_event(Rec(p)) /\ ~is_event(Rec(q))
       /\ LET names == location_groups(Rec(p), item_dictionary).names
          IN  \E m, n \in 1..Len(names) : m # n /\ names[m] = "Progression" /\ names[n] = "Progression"
  /\ location_name_groups = OrderFreeGroups
  /\ location_name_groups["Progression"] # {}

\* C22: the load on the shipped tables never stops on an error: neither the rank
\* pass nor the conditional pass looks up a region that location_tables lacks.
C22_ShippedLoadCompletes ==
  declared = ShippedTables => err = ""

\* C23: every label of a list that location_groups() returns, for any values of
\* the boolean fields and any item of the catalog, is a key of the literal that
\* location_name_groups is declared with, so that adding the record's name under
\* each label of the list raises no KeyError.
C23_LabelsDeclared ==
  (probe.stage = "classified" /\ probe.result.raised = "") =>
    /\ Range(probe.result.names) \subseteq DeclaredGroups
    /\ AddToGroups([label \in DeclaredGroups |-> {}], probe.result.names,
                   probe.self.name).raised = ""

\* A record with all nine fields that give a label, and a shield as item, has been
\* classified: its ten labels are keys of the literal.
C23_Witness ==
  /\ probe.stage = "classified" /\ probe.result.raised = ""
  /\ Range(probe.result.names) =
       {"Prominent", "Progression", "Boss Rewards", "Miniboss Rewards", "Mimic Rewards",
        "Hostile NPC Rewards", "Friendly NPC Rewards", "Small Crystal Lizards", "Hidden",
        "Shields"}
  /\ Range(probe.result.names) \subseteq DeclaredGroups

\* C24: after the index loop, on tables with pairwise distinct names, every member
\* of every group is a key of location_dictionary, and the record the dictionary
\* holds for it is not an event.
C24_GroupMembersAreItems ==
  (pc = "done" /\ NamesDistinct) =>
    \A label \in DOMAIN location_name_groups :
      \A name \in location_name_groups[label] :
        /\ name \in DOMAIN location_dictionary
        /\ ~is_event(Rec(location_dictionary[name]))

\* The load is over on tables with distinct names, among them an event: a member
\* of a classification group and of a region group is a key of the dictionary, for
\* a non-event record.
C24_Witness ==
  /\ pc = "done" /\ NamesDistinct
  /\ \E p \in Positions : is_event(Rec(p)) /\ Key(p) = "Firelink Shrine"
  /\ \E name \in location_name_groups["Firelink Shrine"] :
       /\ name \in location_name_groups["Hidden"]
       /\ name \in DOMAIN location_dictionary
       /\ Rec(location_dictionary[name]).default_item_name = Some("Skull Ring")

\* C25: no region of location_tables has the name of one of the twenty declared
\* classification groups, and no step of the load takes a name out of a
\* classification group: the assignment of a region's group replaces none of them.
C25_RegionGroupReplacesNone ==
  /\ [](\A g \in 1..Len(location_tables) : location_tables[g].key \notin DeclaredGroups)
  /\ [][\A label \in DeclaredGroups \cap DOMAIN location_name_groups :
          /\ label \in DOMAIN location_name_groups'
          /\ location_name_groups[label] \subseteq location_name_groups'[label]]_vars

\* The load is over: the group of "Firelink Shrine" was assigned after names had
\* been added to classification groups, and a member of it is still in "Rings"
\* and in "Hidden".
C25_Witness ==
  /\ pc = "done"
  /\ "Firelink Shrine" \in DOMAIN location_name_groups \ DeclaredGroups
  /\ \E name \in location_name_groups["Firelink Shrine"] :
       name \in location_name_groups["Rings"] /\ name \in location_name_groups["Hidden"]
  /\ \E name \in location_name_groups["Firelink Shrine Bell Tower"] :
       name \in location_name_groups["Small Crystal Lizards"]

\* C26: a record of a region other than the three forced ones has, at every point
\* of the load, the conditional value of its declaration; and an iteration of the
\* conditional pass changes nothing but conditional, and that on the records of
\* the region it iterates on only.
C26_ConditionalPassFrame ==
  /\ [](\A p \in Positions : ~Forced(Key(p)) => Rec(p).conditional = Call(p).conditional)
  /\ [][pc = "conditional" =>
          \A p \in Positions :
            LET after == location_tables'[p[1]].value[p[2]]
            IN  /\ [after EXCEPT !.conditional = Rec(p).conditional] = Rec(p)
                /\ Key(p) # conditional_regions[c + 1] => after = Rec(p)]_vars

\* The load is over on tables with a region outside the forced ones whose record
\* is declared conditional and a record of "Firelink Shrine" declared without:
\* both have the declared value, while the record of the bell tower, declared
\* without, is conditional.
C26_Witness ==
  /\ pc = "done"
  /\ \E p, q, t \in Positions :
       /\ Key(p) = "Ashina Outskirts" /\ Call(p).conditional /\ Rec(p).conditional
       /\ Key(q) = "Firelink Shrine" /\ ~Call(q).conditional /\ ~Rec(q).conditional
       /\ Key(t) = "Firelink Shrine Bell Tower" /\ ~Call(t).conditional /\ Rec(t).conditional
====
